---- MODULE Spec2Model ----
(***************************************************************************)
(* compose2kube: main() of src/main.go.  One run reads the services of a   *)
(* compose project and, for each service in the order of Keys(), builds a  *)
(* replica set (ports, environment, volumes, restart policy) and writes it *)
(* to <output-dir>/<name>-rs.json.  log.Fatalf ends the run; an index out  *)
(* of range ends it with a Go runtime panic.                               *)
(*                                                                         *)
(* A Go string is modelled as the sequence of its characters, each a       *)
(* one-character TLA+ string, so that Trim, Split, Replace and ParseInt    *)
(* are computed on the characters.  Service names, images and restart      *)
(* values are only copied or compared whole and stay TLA+ strings.         *)
(***************************************************************************)
EXTENDS Integers, Sequences, FiniteSets, TLC

VARIABLES keys, configs, idx, pc, service, rs, written, fatal

vars == <<keys, configs, idx, pc, service, rs, written, fatal>>

----------------------------------------------------------------------------
(* Bounds of the model.                                                    *)

\* services in one compose project
MaxServices == 2
\* entries in one ports / environment / volumes list
MaxEntries == 2
\* characters of an exhaustively enumerated port string
MaxPortLen == 4
\* characters of an exhaustively enumerated environment string
MaxEnvLen == 4
\* characters of an exhaustively enumerated volume string
MaxVolLen == 4
\* option fields after HOST:CONTAINER in a constructed volume string
MaxOpts == 2

\* bitSize of strconv.ParseInt(port, 10, 32)
PortBitSize == 32

----------------------------------------------------------------------------
(* Strings as character sequences.                                         *)

\* all character sequences over alphabet A of length 0..n
StringsUpTo(A, n) == UNION {[1..k -> A] : k \in 0..n}

\* all sequences over S of length lo..hi
SeqsBetween(S, lo, hi) == UNION {[1..k -> S] : k \in lo..hi}

\* unicode.IsSpace restricted to the ASCII white space characters (the vertical
\* tab, the form feed and the non-ASCII spaces are not among the inputs)
WhiteSpace == {" ", "\t", "\n", "\r"}

DigitChars == {"0", "1", "2", "3", "4", "5", "6", "7", "8", "9"}

DigitVal(c) ==
    CASE c = "0" -> 0 [] c = "1" -> 1 [] c = "2" -> 2 [] c = "3" -> 3
      [] c = "4" -> 4 [] c = "5" -> 5 [] c = "6" -> 6 [] c = "7" -> 7
      [] c = "8" -> 8 [] c = "9" -> 9

RECURSIVE TrimLeftSet(_, _)
TrimLeftSet(s, cutset) ==
    IF s # <<>> /\ Head(s) \in cutset THEN TrimLeftSet(Tail(s), cutset) ELSE s

RECURSIVE TrimRightSet(_, _)
TrimRightSet(s, cutset) ==
    IF s # <<>> /\ s[Len(s)] \in cutset
    THEN TrimRightSet(SubSeq(s, 1, Len(s) - 1), cutset)
    ELSE s

\* strings.Trim(s, cutset): leading and trailing characters of cutset removed
Trim(s, cutset) == TrimRightSet(TrimLeftSet(s, cutset), cutset)

\* strings.TrimSpace(s)
TrimSpace(s) == Trim(s, WhiteSpace)

\* strings.Contains(s, c) for a one-character c
Contains(s, c) == \E k \in 1..Len(s) : s[k] = c

\* strings.Split(s, sep) for a one-character sep: every field, n = -1
RECURSIVE SplitFrom(_, _, _)
SplitFrom(s, sep, cur) ==
    IF s = <<>> THEN <<cur>>
    ELSE IF Head(s) = sep THEN <<cur>> \o SplitFrom(Tail(s), sep, <<>>)
    ELSE SplitFrom(Tail(s), sep, Append(cur, Head(s)))

Split(s, sep) == SplitFrom(s, sep, <<>>)

\* strings.Replace(s, old, "", 1): only the first occurrence is removed
ReplaceFirstEmpty(s, old) ==
    IF \E k \in 1..Len(s) : s[k] = old
    THEN LET first == CHOOSE k \in 1..Len(s) :
                          s[k] = old /\ \A j \in 1..(k - 1) : s[j] # old
         IN  SubSeq(s, 1, first - 1) \o SubSeq(s, first + 1, Len(s))
    ELSE s

\* strings.Replace(s, old, "", -1) for a one-character old
RECURSIVE ReplaceAllEmpty(_, _)
ReplaceAllEmpty(s, old) ==
    IF s = <<>> THEN <<>>
    ELSE IF Head(s) = old THEN ReplaceAllEmpty(Tail(s), old)
    ELSE <<Head(s)>> \o ReplaceAllEmpty(Tail(s), old)

----------------------------------------------------------------------------
(* strconv.ParseInt(s, 10, bitSize).  The magnitude is accumulated as a    *)
(* non-positive number, so that 2^(bitSize-1) itself is representable; a   *)
(* magnitude beyond it is the range error.                                  *)

RECURSIVE Pow2(_)
Pow2(n) == IF n = 0 THEN 1 ELSE 2 * Pow2(n - 1)

\* -(2^(bitSize-1)), the least value of the width
MinOfWidth(bitSize) == (-Pow2(bitSize - 2)) * 2

OutOfRange == 1

\* acc is -(magnitude so far), or OutOfRange once the magnitude passed 2^(bitSize-1);
\* the test acc * 10 - d >= lo is made on the quotient and the remainder of the
\* limit, so that no intermediate value leaves the width
RECURSIVE NegMagnitude(_, _, _)
NegMagnitude(s, acc, lo) ==
    IF s = <<>> \/ acc = OutOfRange THEN acc
    ELSE LET d    == DigitVal(Head(s))
             maxv == -(lo + 1)
             q    == -(maxv \div 10)
             r    == (maxv % 10) + 1
         IN  IF acc > q \/ (acc = q /\ d <= r)
             THEN NegMagnitude(Tail(s), acc * 10 - d, lo)
             ELSE OutOfRange

ParseFailed == [err |-> TRUE, val |-> 0]

ParseInt(s, bitSize) ==
    LET signed == s # <<>> /\ s[1] \in {"+", "-"}
        neg    == signed /\ s[1] = "-"
        digits == IF signed THEN Tail(s) ELSE s
        lo     == MinOfWidth(bitSize)
    IN  IF digits = <<>> \/ \E k \in 1..Len(digits) : digits[k] \notin DigitChars
        THEN ParseFailed
        ELSE LET m == NegMagnitude(digits, 0, lo)
             IN  IF m = OutOfRange THEN ParseFailed
                 ELSE IF neg THEN [err |-> FALSE, val |-> m]
                 ELSE IF m = lo THEN ParseFailed
                 ELSE [err |-> FALSE, val |-> -m]

----------------------------------------------------------------------------
(* The body of the loop over the services, stage by stage.                 *)

\* PortField with the white space trimmed before the quotes
PortFieldSpaceFirst(port) ==
    LET trimmed  == TrimSpace(port)
        unquoted == Trim(trimmed, {"\""})
    IN  IF Contains(unquoted, ":") THEN Split(unquoted, ":")[2] ELSE unquoted

\* PortField with strings.SplitN(port, ":", 2): all that follows the first colon
PortFieldSplitN(port) ==
    LET unquoted == Trim(port, {"\""})
        trimmed  == TrimSpace(unquoted)
        parts    == Split(trimmed, ":")
    IN  IF Contains(trimmed, ":")
        THEN SubSeq(trimmed, Len(parts[1]) + 2, Len(trimmed))
        ELSE trimmed

\* the string handed to ParseInt for one entry of service.Ports
PortField(port) ==
    LET unquoted == Trim(port, {"\""})
        trimmed  == TrimSpace(unquoted)
    IN  IF Contains(trimmed, ":") THEN Split(trimmed, ":")[2] ELSE trimmed

\* ContainerPorts with continue in the place of log.Fatalf
RECURSIVE ContainerPortsSkipping(_, _)
ContainerPortsSkipping(ports, acc) ==
    IF ports = <<>> THEN [err |-> FALSE, ports |-> acc, port |-> <<>>]
    ELSE LET r == ParseInt(PortField(Head(ports)), PortBitSize)
         IN  IF r.err
             THEN ContainerPortsSkipping(Tail(ports), acc)
             ELSE ContainerPortsSkipping(Tail(ports), Append(acc, [ContainerPort |-> r.val]))

\* ContainerPorts with log.Fatalf naming the entry as it was read
RECURSIVE ContainerPortsRaw(_, _)
ContainerPortsRaw(ports, acc) ==
    IF ports = <<>> THEN [err |-> FALSE, ports |-> acc, port |-> <<>>]
    ELSE LET r == ParseInt(PortField(Head(ports)), PortBitSize)
         IN  IF r.err
             THEN [err |-> TRUE, ports |-> acc, port |-> Head(ports)]
             ELSE ContainerPortsRaw(Tail(ports), Append(acc, [ContainerPort |-> r.val]))

\* the loop over service.Ports: the container ports, or the port that
\* log.Fatalf names when ParseInt fails
RECURSIVE ContainerPorts(_, _)
ContainerPorts(ports, acc) ==
    IF ports = <<>> THEN [err |-> FALSE, ports |-> acc, port |-> <<>>]
    ELSE LET port == PortField(Head(ports))
             r    == ParseInt(port, PortBitSize)
         IN  IF r.err
             THEN [err |-> TRUE, ports |-> acc, port |-> port]
             ELSE ContainerPorts(Tail(ports), Append(acc, [ContainerPort |-> r.val]))

\* EnvVars with strings.SplitN(env, "=", 2): the value runs to the end of the entry
RECURSIVE EnvVarsSplitN(_, _)
EnvVarsSplitN(environment, acc) ==
    IF environment = <<>> THEN acc
    ELSE LET env == Head(environment)
         IN  IF Contains(env, "=")
             THEN LET name == Split(env, "=")[1]
                  IN  EnvVarsSplitN(Tail(environment),
                          Append(acc, [Name |-> name,
                                       Value |-> SubSeq(env, Len(name) + 2, Len(env))]))
             ELSE EnvVarsSplitN(Tail(environment), acc)

\* the loop over service.Environment
RECURSIVE EnvVars(_, _)
EnvVars(environment, acc) ==
    IF environment = <<>> THEN acc
    ELSE LET env == Head(environment)
         IN  IF Contains(env, "=")
             THEN LET parts == Split(env, "=")
                  IN  EnvVars(Tail(environment),
                              Append(acc, [Name |-> parts[1], Value |-> parts[2]]))
             ELSE EnvVars(Tail(environment), acc)

Ro == <<"r", "o">>
Rw == <<"r", "w">>

\* ScanOptions with break statements that leave the loop: the first match decides
RECURSIVE ScanOptionsFirstMatch(_, _)
ScanOptionsFirstMatch(opts, partReadOnly) ==
    IF opts = <<>> THEN partReadOnly
    ELSE IF Head(opts) = Ro THEN TRUE
    ELSE IF Head(opts) = Rw THEN FALSE
    ELSE ScanOptionsFirstMatch(Tail(opts), partReadOnly)

\* the switch over parts[2:]; its break statements leave the switch, not the loop
RECURSIVE ScanOptions(_, _)
ScanOptions(opts, partReadOnly) ==
    IF opts = <<>> THEN partReadOnly
    ELSE LET partOpt == Head(opts)
         IN  IF partOpt = Ro THEN ScanOptions(Tail(opts), TRUE)
             ELSE IF partOpt = Rw THEN ScanOptions(Tail(opts), FALSE)
             ELSE ScanOptions(Tail(opts), partReadOnly)

\* the loop over service.Volumes; parts[1] of a string without ':' is an index
\* out of range, which panics
RECURSIVE VolumeLists(_, _, _)
VolumeLists(vols, volumemounts, volumes) ==
    IF vols = <<>>
    THEN [panic |-> FALSE, volumemounts |-> volumemounts, volumes |-> volumes]
    ELSE LET parts == Split(Head(vols), ":")
         IN  IF Len(parts) < 2
             THEN [panic |-> TRUE, volumemounts |-> volumemounts, volumes |-> volumes]
             ELSE LET partHostDir      == parts[1]
                      partContainerDir == parts[2]
                      partReadOnly     ==
                          IF Len(parts) > 2
                          THEN ScanOptions(SubSeq(parts, 3, Len(parts)), FALSE)
                          ELSE FALSE
                      partName         == ReplaceAllEmpty(partHostDir, "/")
                  IN  VolumeLists(Tail(vols),
                          Append(volumemounts,
                                 [Name |-> partName, ReadOnly |-> partReadOnly,
                                  MountPath |-> partContainerDir]),
                          Append(volumes, [Name |-> partName, HostPath |-> partHostDir]))

\* RestartPolicyOf with the letter case of the value ignored
RestartPolicyOfAnyCase(restart) ==
    CASE restart \in {"", "always", "Always"} -> "Always"
      [] restart \in {"no", "No"}             -> "Never"
      [] restart = "on-failure"               -> "OnFailure"
      [] OTHER                                -> ""

\* the switch over service.Restart; "" is the default case's log.Fatalf
RestartPolicyOf(restart) ==
    CASE restart \in {"", "always"} -> "Always"
      [] restart = "no"             -> "Never"
      [] restart = "on-failure"     -> "OnFailure"
      [] OTHER                      -> ""

\* the replica set as built before the ports are configured
NewReplicaSet(name, svc) ==
    [Kind |-> "ReplicaSet", APIVersion |-> "extensions/v1beta1",
     Name |-> name, Labels |-> [service |-> name], Replicas |-> 1,
     TemplateLabels |-> [service |-> name],
     ContainerName |-> name, Image |-> svc.Image, Command |-> svc.Command,
     Ports |-> <<>>, Env |-> <<>>, VolumeMounts |-> <<>>, Volumes |-> <<>>,
     RestartPolicy |-> ""]

NoService ==
    [Image |-> "", Command |-> <<>>, Ports |-> <<>>, Environment |-> <<>>,
     Volumes |-> <<>>, Restart |-> ""]

NoReplicaSet == NewReplicaSet("", NoService)

NoFatal == [kind |-> "none", service |-> "", port |-> <<>>, restart |-> ""]

\* fmt.Sprintf("%s-rs.json", name) under outputDir
OutputFilePath(name) == <<"output", name, "-rs.json">>

----------------------------------------------------------------------------
(* The compose projects of the model: what p.Parse() may have loaded.      *)

AllNames == <<"db", "web", "cache", "api">>

Names == {AllNames[k] : k \in 1..MaxServices}

\* the orders Keys() may return: the service names of a project, each once
KeyOrders ==
    {k \in SeqsBetween(Names, 0, MaxServices) :
        \A a, b \in 1..Len(k) : a # b => k[a] # k[b]}

Port80          == <<"8", "0">>
Port8080To80    == <<"8", "0", "8", "0", ":", "8", "0">>
PortPaddedQuoted53 == <<" ", "\"", "5", "3", "\"", " ">>
PortQuotedPadded53 == <<"\"", " ", "5", "3", " ", "\"">>
PortAbc         == <<"a", "b", "c">>
Port8080ToAbc   == <<"8", "0", "8", "0", ":", "a", "b", "c">>
Port1To2To3     == <<"1", ":", "2", ":", "3">>
PortMaxInt32    == <<"2", "1", "4", "7", "4", "8", "3", "6", "4", "7">>
PortPastInt32   == <<"2", "1", "4", "7", "4", "8", "3", "6", "4", "8">>
PortMinInt32    == <<"-", "2", "1", "4", "7", "4", "8", "3", "6", "4", "8">>
PortBelowInt32  == <<"-", "2", "1", "4", "7", "4", "8", "3", "6", "4", "9">>
PortPlus5       == <<"+", "5">>

PortSamples ==
    {Port80, Port8080To80, PortPaddedQuoted53, PortQuotedPadded53, PortAbc,
     Port8080ToAbc, Port1To2To3, PortMaxInt32, PortPastInt32, PortMinInt32,
     PortBelowInt32, PortPlus5}

PortAlphabet == {"\"", " ", ":", "5", "0", "a", "-"}

\* one entry from every short string, or several entries from the samples
PortLists ==
    SeqsBetween(StringsUpTo(PortAlphabet, MaxPortLen) \cup PortSamples, 0, 1)
        \cup SeqsBetween(PortSamples, 2, MaxEntries)

EnvDebugTrue == <<"D", "E", "B", "U", "G", "=", "t", "r", "u", "e">>
EnvKeyValue  == <<"K", "E", "Y", "=", "V", "A", "L", "U", "E">>
EnvKeyAB     == <<"K", "E", "Y", "=", "A", "=", "B">>
EnvNoEquals  == <<"N", "O", "E", "Q", "U", "A", "L", "S">>
EnvOnlyKey   == <<"K", "=">>

EnvSamples == {EnvDebugTrue, EnvKeyValue, EnvKeyAB, EnvNoEquals, EnvOnlyKey}

EnvAlphabet == {"K", "=", "v"}

EnvLists ==
    SeqsBetween(StringsUpTo(EnvAlphabet, MaxEnvLen) \cup EnvSamples, 0, 1)
        \cup SeqsBetween(EnvSamples, 2, MaxEntries)

RECURSIVE JoinColon(_)
JoinColon(fields) ==
    IF Len(fields) = 1 THEN fields[1]
    ELSE fields[1] \o <<":">> \o JoinColon(Tail(fields))

HostDirs      == {<<"/", "a">>, <<"a", "/">>, <<"/", "d", "/", "b">>}
ContainerDirs == {<<"/", "b">>}
OptionFields  == {Ro, Rw, <<"z">>, <<>>}

\* HOST:CONTAINER followed by 0..MaxOpts option fields
BuiltVolumes ==
    {JoinColon(<<h, c>> \o o) :
        h \in HostDirs, c \in ContainerDirs, o \in SeqsBetween(OptionFields, 0, MaxOpts)}

VolHostDataRo == JoinColon(<<<<"/", "h", "/", "d">>, <<"/", "d">>, Ro>>)
VolNoColon    == <<"/", "d", "a", "t", "a">>
VolDataDb     == JoinColon(<<<<"/", "d", "/", "b">>, <<"/", "l">>>>)
VolARw        == JoinColon(<<<<"/", "a">>, <<"/", "b">>, Rw>>)
VolASlashRoRw == JoinColon(<<<<"a", "/">>, <<"/", "c">>, Ro, Rw>>)

VolSamples == {VolHostDataRo, VolNoColon, VolDataDb, VolARw, VolASlashRoRw}

VolAlphabet == {"/", ":", "a"}

VolLists ==
    SeqsBetween(StringsUpTo(VolAlphabet, MaxVolLen) \cup BuiltVolumes \cup VolSamples, 0, 1)
        \cup SeqsBetween(VolSamples, 2, MaxEntries)

Restarts == {"", "always", "no", "on-failure", "Always", "No", "never", "unless-stopped"}

Svc(ports, environment, volumes, restart) ==
    [Image |-> "nginx", Command |-> <<"run">>, Ports |-> ports,
     Environment |-> environment, Volumes |-> volumes, Restart |-> restart]

\* services that vary in one field at a time, over all of that field's inputs
WideServices ==
    {Svc(p, <<>>, <<>>, "") : p \in PortLists}
        \cup {Svc(<<Port80>>, e, <<>>, "no") : e \in EnvLists}
        \cup {Svc(<<>>, <<>>, v, "on-failure") : v \in VolLists}
        \cup {Svc(<<Port8080To80>>, <<EnvDebugTrue>>, <<VolHostDataRo>>, r) : r \in Restarts}

\* services that may fail in several fields at once
SampleServices ==
    {Svc(p, <<EnvDebugTrue>>, v, r) :
        p \in {<<Port8080To80>>, <<PortAbc>>},
        v \in {<<VolHostDataRo>>, <<VolNoColon>>},
        r \in {"", "on-failure", "Always"}}

Manifests ==
    UNION {{[keys |-> k, configs |-> c] :
                c \in [{k[j] : j \in 1..Len(k)} -> SampleServices]} : k \in KeyOrders}
        \cup {[keys |-> <<n>>, configs |-> (n :> s)] : n \in Names, s \in WideServices}

----------------------------------------------------------------------------
(* The run.                                                                *)

Init ==
    /\ \E m \in Manifests : keys = m.keys /\ configs = m.configs
    /\ idx = 1
    /\ pc = "loop"
    /\ service = NoService
    /\ rs = NoReplicaSet
    /\ written = <<>>
    /\ fatal = NoFatal

\* for _, name := range keys: the range is exhausted and main returns
Return ==
    /\ pc = "loop"
    /\ idx > Len(keys)
    /\ pc' = "done"
    /\ UNCHANGED <<keys, configs, idx, service, rs, written, fatal>>

\* the next name: p.ServiceConfigs.Get(name) and the replica set's skeleton
GetService ==
    /\ pc = "loop"
    /\ idx <= Len(keys)
    /\ service' = configs[keys[idx]]
    /\ rs' = NewReplicaSet(keys[idx], configs[keys[idx]])
    /\ pc' = "ports"
    /\ UNCHANGED <<keys, configs, idx, written, fatal>>

\* ConfigurePorts with log.Printf in the place of log.Fatalf: the run goes on
ConfigurePortsLogsOn ==
    /\ pc = "ports"
    /\ LET r == ContainerPorts(service.Ports, <<>>)
       IN  /\ rs' = [rs EXCEPT !.Ports = r.ports]
           /\ pc' = "env"
           /\ fatal' = fatal
    /\ UNCHANGED <<keys, configs, idx, service, written>>

ConfigurePorts ==
    /\ pc = "ports"
    /\ LET r == ContainerPorts(service.Ports, <<>>)
       IN  IF r.err
           THEN /\ fatal' = [kind |-> "InvalidPort", service |-> keys[idx],
                             port |-> r.port, restart |-> ""]
                /\ pc' = "fatal"
                /\ rs' = rs
           ELSE /\ rs' = [rs EXCEPT !.Ports = r.ports]
                /\ pc' = "env"
                /\ fatal' = fatal
    /\ UNCHANGED <<keys, configs, idx, service, written>>

ConfigureEnv ==
    /\ pc = "env"
    /\ rs' = [rs EXCEPT !.Env = EnvVars(service.Environment, <<>>)]
    /\ pc' = "volumes"
    /\ UNCHANGED <<keys, configs, idx, service, written, fatal>>

ConfigureVolumes ==
    /\ pc = "volumes"
    /\ LET r == VolumeLists(service.Volumes, <<>>, <<>>)
       IN  IF r.panic
           THEN /\ pc' = "panic"
                /\ rs' = rs
           ELSE /\ rs' = [rs EXCEPT !.VolumeMounts = r.volumemounts,
                                    !.Volumes = r.volumes]
                /\ pc' = "restart"
    /\ UNCHANGED <<keys, configs, idx, service, written, fatal>>

ConfigureRestart ==
    /\ pc = "restart"
    /\ LET policy == RestartPolicyOf(service.Restart)
       IN  IF policy = ""
           THEN /\ fatal' = [kind |-> "UnknownRestartPolicy", service |-> keys[idx],
                             port |-> <<>>, restart |-> service.Restart]
                /\ pc' = "fatal"
                /\ rs' = rs
           ELSE /\ rs' = [rs EXCEPT !.RestartPolicy = policy]
                /\ pc' = "write"
                /\ fatal' = fatal
    /\ UNCHANGED <<keys, configs, idx, service, written>>

\* json.MarshalIndent, ioutil.WriteFile and fmt.Println of the path
WriteReplicaSet ==
    /\ pc = "write"
    /\ written' = Append(written, [path |-> OutputFilePath(keys[idx]), data |-> rs])
    /\ idx' = idx + 1
    /\ pc' = "loop"
    /\ UNCHANGED <<keys, configs, service, rs, fatal>>

\* ioutil.WriteFile returns an error
WriteFails ==
    /\ pc = "write"
    /\ fatal' = [kind |-> "WriteFailed", service |-> keys[idx],
                 port |-> <<>>, restart |-> ""]
    /\ pc' = "fatal"
    /\ UNCHANGED <<keys, configs, idx, service, rs, written>>

Next ==
    \/ Return
    \/ GetService
    \/ ConfigurePorts
    \/ ConfigureEnv
    \/ ConfigureVolumes
    \/ ConfigureRestart
    \/ WriteReplicaSet
    \/ WriteFails

Spec == Init /\ [][Next]_vars

----------------------------------------------------------------------------
(* The vocabulary of the properties.  These definitions state what a       *)
(* string means by positions and counting; none of them uses the           *)
(* operators of the run above.                                              *)

Min(S) == CHOOSE x \in S : \A y \in S : x <= y
Max(S) == CHOOSE x \in S : \A y \in S : x >= y

\* the k-th smallest element of a set of numbers
Nth(S, k) == CHOOSE x \in S : Cardinality({y \in S : y <= x}) = k

Positions(s, c) == {k \in 1..Len(s) : s[k] = c}

HasChar(s, c) == Positions(s, c) # {}

\* s without the characters of C at its two ends
Strip(s, C) ==
    LET keep == {k \in 1..Len(s) : s[k] \notin C}
    IN  IF keep = {} THEN <<>> ELSE SubSeq(s, Min(keep), Max(keep))

\* the k-th of the fields that the occurrences of sep cut s into
FieldOf(s, sep, k) ==
    LET at    == Positions(s, sep)
        from  == IF k = 1 THEN 1 ELSE Nth(at, k - 1) + 1
        until == IF k > Cardinality(at) THEN Len(s) ELSE Nth(at, k) - 1
    IN  SubSeq(s, from, until)

FieldCount(s, sep) == Cardinality(Positions(s, sep)) + 1

\* everything after the first occurrence of sep
AfterFirst(s, sep) == SubSeq(s, Min(Positions(s, sep)) + 1, Len(s))

\* s with every occurrence of c deleted
Without(s, c) ==
    LET keep == {k \in 1..Len(s) : s[k] # c}
    IN  [j \in 1..Cardinality(keep) |-> s[Nth(keep, j)]]

Int32MaxDigits == <<"2", "1", "4", "7", "4", "8", "3", "6", "4", "7">>
Int32MinDigits == <<"2", "1", "4", "7", "4", "8", "3", "6", "4", "8">>

Unsigned(s) == IF s # <<>> /\ s[1] \in {"+", "-"} THEN SubSeq(s, 2, Len(s)) ELSE s

Negative(s) == s # <<>> /\ s[1] = "-"

\* the digits from the first one that is not a leading zero
Significant(d) ==
    LET nz == {k \in 1..Len(d) : d[k] # "0"}
    IN  IF nz = {} THEN <<>> ELSE SubSeq(d, Min(nz), Len(d))

\* digit strings compared as numbers
DigitsLeq(a, b) ==
    \/ Len(a) < Len(b)
    \/ /\ Len(a) = Len(b)
       /\ \/ a = b
          \/ \E k \in 1..Len(a) :
                /\ DigitVal(a[k]) < DigitVal(b[k])
                /\ \A j \in 1..(k - 1) : a[j] = b[j]

\* an optional sign and one or more decimal digits, of a value in -2^31 .. 2^31-1
IsInt32Literal(s) ==
    LET d == Unsigned(s)
    IN  /\ d # <<>>
        /\ \A k \in 1..Len(d) : d[k] \in DigitChars
        /\ DigitsLeq(Significant(d), IF Negative(s) THEN Int32MinDigits ELSE Int32MaxDigits)

RECURSIVE Pow10(_)
Pow10(n) == IF n = 0 THEN 1 ELSE 10 * Pow10(n - 1)

\* minus the sum of digit * 10^place over the places from k on
RECURSIVE NegPlaceSum(_, _)
NegPlaceSum(d, k) ==
    IF k > Len(d) THEN 0
    ELSE NegPlaceSum(d, k + 1) - DigitVal(d[k]) * Pow10(Len(d) - k)

\* the value of an int32 literal
Int32Value(s) ==
    LET n == NegPlaceSum(Significant(Unsigned(s)), 1)
    IN  IF Negative(s) THEN n ELSE -n

Quote == {"\""}

\* a port entry after its quotes, then its white space, are stripped
Normalised(raw) == Strip(Strip(raw, Quote), WhiteSpace)

\* the part of a port entry that names the container port
ContainerField(raw) ==
    LET n == Normalised(raw)
    IN  IF HasChar(n, ":") THEN FieldOf(n, ":", 2) ELSE n

BadPort(raw) == ~IsInt32Literal(ContainerField(raw))

BadPorts(svc) == {k \in 1..Len(svc.Ports) : BadPort(svc.Ports[k])}

BadVolumes(svc) == {k \in 1..Len(svc.Volumes) : ~HasChar(svc.Volumes[k], ":")}

KnownRestarts == {"", "always", "no", "on-failure"}

\* the service cannot be translated
Untranslatable(svc) ==
    BadPorts(svc) # {} \/ BadVolumes(svc) # {} \/ svc.Restart \notin KnownRestarts

\* the current service's ports have been configured
PortsDone == pc \in {"env", "volumes", "restart", "write"}

\* the run ended in log.Fatalf("Invalid container port ...")
InvalidPort == pc = "fatal" /\ fatal.kind = "InvalidPort"

\* the current service was loaded and its ports stage has acted
PortsActed == PortsDone \/ pc \in {"fatal", "panic"}

\* the current service's volumes have been configured
VolumesDone == pc \in {"restart", "write"}

PathsOf(files) == [k \in 1..Len(files) |-> files[k].path]

----------------------------------------------------------------------------
(* C1: fail-fast output.  When the run has ended, the files written are    *)
(* those of the services before the first service that fails, in the order *)
(* of keys and each once: all of them when the run returned, and none for  *)
(* the failing service or a later one.  At every moment the files written  *)
(* are those of the services before the current one.                       *)

C1_FailFastOutput ==
    LET failing == {k \in 1..Len(keys) : Untranslatable(configs[keys[k]])}
        first   == IF failing = {} THEN Len(keys) + 1 ELSE Min(failing)
    IN  /\ PathsOf(written) = [k \in 1..(idx - 1) |-> OutputFilePath(keys[k])]
        /\ idx <= first
        /\ pc = "done" => failing = {} /\ Len(written) = Len(keys)
        /\ (pc \in {"fatal", "panic"} /\ fatal.kind # "WriteFailed") => idx = first
        /\ (pc = "fatal" /\ fatal.kind = "WriteFailed") => idx < first

\* the second of two services fails after the first was written
C1_Witness ==
    /\ pc \in {"fatal", "panic"}
    /\ fatal.kind # "WriteFailed"
    /\ Len(keys) = 2
    /\ idx = 2
    /\ Len(written) = 1
    /\ written[1].path = OutputFilePath(keys[1])

----------------------------------------------------------------------------

\* an entry with at most one colon: the part the claim takes the value of
SimplePort(raw) == Cardinality(Positions(Normalised(raw), ":")) <= 1

SimplePortField(raw) ==
    LET n == Normalised(raw)
    IN  IF HasChar(n, ":") THEN AfterFirst(n, ":") ELSE n

(* C2: port mapping.  Once a service's ports are configured the container  *)
(* ports are as many as the source entries and in their order; an entry of *)
(* the form CONTAINERPORT or HOSTPORT:CONTAINERPORT (at most one colon)    *)
(* gives the int32 value of the entry, or of what follows its colon, zero  *)
(* and negative values included; and a service with such an entry that is  *)
(* no int32 literal is never translated: the run ends in InvalidPort.      *)

C2_PortMapping ==
    /\ PortsDone =>
          /\ Len(rs.Ports) = Len(service.Ports)
          /\ \A k \in 1..Len(service.Ports) :
                SimplePort(service.Ports[k]) =>
                    /\ IsInt32Literal(SimplePortField(service.Ports[k]))
                    /\ k <= Len(rs.Ports)
                    /\ rs.Ports[k].ContainerPort = Int32Value(SimplePortField(service.Ports[k]))
    /\ (/\ PortsActed
        /\ \E k \in 1..Len(service.Ports) :
              /\ SimplePort(service.Ports[k])
              /\ ~IsInt32Literal(SimplePortField(service.Ports[k])))
          => InvalidPort

\* a mapped port and the least int32, translated in order
C2_Witness ==
    /\ PortsDone
    /\ service.Ports = <<Port8080To80, PortMinInt32>>
    /\ Len(rs.Ports) = 2
    /\ rs.Ports[1].ContainerPort = 80
    /\ rs.Ports[2].ContainerPort < 0

----------------------------------------------------------------------------
(* C3: port normalisation.  As claimed: the entry made of a space, a       *)
(* double quote, 53, a double quote and a space translates to container    *)
(* port 53 and not to InvalidPort.                                          *)

C3_PaddedQuotedResolves ==
    (PortsActed /\ service.Ports = <<PortPaddedQuoted53>>)
        => (~InvalidPort /\ rs.Ports = <<[ContainerPort |-> 53]>>)

(* C3 as amended: the double quotes at the two ends are stripped first and *)
(* the white space at the two ends second, once each.  An entry without a  *)
(* colon gives the value of what is left, so quote, space, 53, space,      *)
(* quote gives 53; quotes that only the white space stripping uncovers     *)
(* stay, so space, quote, 53, quote, space ends the run in InvalidPort.    *)

C3_QuotesThenSpace ==
    /\ PortsDone =>
          \A k \in 1..Len(service.Ports) :
             LET raw == service.Ports[k]
             IN  /\ ~HasChar(raw, ":") =>
                        /\ k <= Len(rs.Ports)
                        /\ IsInt32Literal(Strip(Strip(raw, Quote), WhiteSpace))
                        /\ rs.Ports[k].ContainerPort =
                              Int32Value(Strip(Strip(raw, Quote), WhiteSpace))
                 /\ raw = PortQuotedPadded53 =>
                        k <= Len(rs.Ports) /\ rs.Ports[k].ContainerPort = 53
    /\ (/\ PortsActed
        /\ \E k \in 1..Len(service.Ports) :
              LET raw == service.Ports[k]
              IN  \/ raw = PortPaddedQuoted53
                  \/ ~HasChar(raw, ":") /\ ~IsInt32Literal(Strip(Strip(raw, Quote), WhiteSpace)))
          => InvalidPort

\* the padded quoted entry ends the run; the string named is the quoted 53
C3_Witness ==
    /\ InvalidPort
    /\ service.Ports = <<PortPaddedQuoted53>>
    /\ fatal.port = <<"\"", "5", "3", "\"">>

----------------------------------------------------------------------------

EnvDone == pc \in {"volumes", "restart", "write"}

(* C4: environment mapping.  The env list holds, in source order, one      *)
(* pair for each source entry that contains '=' and none for the others;   *)
(* the name is the text before the first '=' and the value the text        *)
(* between the first '=' and the second (or the end of the entry).         *)

C4_EnvMapping ==
    EnvDone =>
        LET withEq == {k \in 1..Len(service.Environment) :
                          HasChar(service.Environment[k], "=")}
        IN  /\ Len(rs.Env) = Cardinality(withEq)
            /\ \A j \in 1..Cardinality(withEq) :
                  LET env == service.Environment[Nth(withEq, j)]
                  IN  /\ j <= Len(rs.Env)
                      /\ rs.Env[j].Name = FieldOf(env, "=", 1)
                      /\ rs.Env[j].Value = FieldOf(env, "=", 2)

\* NOEQUALS is dropped and KEY=A=B gives (KEY, A)
C4_Witness ==
    /\ EnvDone
    /\ service.Environment = <<EnvNoEquals, EnvKeyAB>>
    /\ rs.Env = <<[Name |-> <<"K", "E", "Y">>, Value |-> <<"A">>]>>

----------------------------------------------------------------------------
(* C5: volume correspondence.  Once a service's volumes are configured,    *)
(* volumeMounts and volumes are as long as the source list and, entry by   *)
(* entry, share the name that is the host path (the first colon-delimited  *)
(* field) with every '/' deleted; the volume keeps the host path unchanged *)
(* and the mount's path is the second field.  Entries whose names collide  *)
(* are both kept.                                                           *)

C5_VolumeCorrespondence ==
    VolumesDone =>
        /\ Len(rs.VolumeMounts) = Len(service.Volumes)
        /\ Len(rs.Volumes) = Len(service.Volumes)
        /\ \A k \in 1..Len(service.Volumes) :
              LET hostPath == FieldOf(service.Volumes[k], ":", 1)
              IN  /\ k <= Len(rs.Volumes) /\ k <= Len(rs.VolumeMounts)
                  /\ rs.VolumeMounts[k].Name = Without(hostPath, "/")
                  /\ rs.Volumes[k].Name = Without(hostPath, "/")
                  /\ rs.Volumes[k].HostPath = hostPath
                  /\ rs.VolumeMounts[k].MountPath = FieldOf(service.Volumes[k], ":", 2)

\* /a and a/ both give the name a, and both entries are kept
C5_Witness ==
    /\ pc = "write"
    /\ service.Volumes = <<VolARw, VolASlashRoRw>>
    /\ Len(rs.Volumes) = 2
    /\ rs.Volumes[1].Name = <<"a">>
    /\ rs.VolumeMounts[2].Name = <<"a">>
    /\ rs.Volumes[1].HostPath # rs.Volumes[2].HostPath

----------------------------------------------------------------------------
(* C6: the read-only flag of a mount follows the fields from the third on  *)
(* alone: it is false when none of them is ro or rw, and otherwise true    *)
(* exactly when the last of them that is ro or rw is ro.                    *)

C6_ReadOnlyFlag ==
    VolumesDone =>
        \A k \in 1..Len(service.Volumes) :
            LET vol   == service.Volumes[k]
                modes == {f \in 3..FieldCount(vol, ":") : FieldOf(vol, ":", f) \in {Ro, Rw}}
            IN  /\ k <= Len(rs.VolumeMounts)
                /\ rs.VolumeMounts[k].ReadOnly =
                      (modes # {} /\ FieldOf(vol, ":", Max(modes)) = Ro)

\* ro followed by rw is read-write, and a lone ro is read-only
C6_Witness ==
    /\ pc = "write"
    /\ service.Volumes = <<VolHostDataRo, VolASlashRoRw>>
    /\ Len(rs.VolumeMounts) = 2
    /\ rs.VolumeMounts[1].ReadOnly = TRUE
    /\ rs.VolumeMounts[2].ReadOnly = FALSE

----------------------------------------------------------------------------

ExpectedPolicy(restart) ==
    IF restart = "no" THEN "Never"
    ELSE IF restart = "on-failure" THEN "OnFailure"
    ELSE "Always"

RestartDone == pc = "write" \/ (pc = "fatal" /\ fatal.kind = "WriteFailed")

UnknownRestartPolicy == pc = "fatal" /\ fatal.kind = "UnknownRestartPolicy"

(* C7: the restart policy mapping is total and case-sensitive.  A service  *)
(* that reaches the write has "" or always as Always, no as Never and      *)
(* on-failure as OnFailure; a service whose ports and volumes are well     *)
(* formed and whose restart value is any other one ends the run in         *)
(* UnknownRestartPolicy, which names the service and the value; every      *)
(* descriptor written carries Always, Never or OnFailure.                   *)

C7_RestartMapping ==
    /\ RestartDone =>
          /\ service.Restart \in KnownRestarts
          /\ rs.RestartPolicy = ExpectedPolicy(service.Restart)
    /\ (/\ pc \in {"write", "fatal", "panic"}
        /\ BadPorts(service) = {}
        /\ BadVolumes(service) = {}
        /\ service.Restart \notin KnownRestarts)
          => /\ UnknownRestartPolicy
             /\ fatal.service = keys[idx]
             /\ fatal.restart = service.Restart
    /\ UnknownRestartPolicy => service.Restart \notin KnownRestarts
    /\ \A k \in 1..Len(written) :
          /\ written[k].data.RestartPolicy \in {"Always", "Never", "OnFailure"}
          /\ written[k].data.RestartPolicy = ExpectedPolicy(configs[keys[k]].Restart)

\* the value Always, in another letter case than always, is rejected
C7_Witness ==
    /\ UnknownRestartPolicy
    /\ service.Restart = "Always"
    /\ fatal.restart = "Always"

----------------------------------------------------------------------------

\* the current service's volumes stage has acted
VolumesActed == pc \in {"restart", "write", "panic"} \/ (pc = "fatal" /\ ~InvalidPort)

(* C8: a volume entry without ':' ends the translation in the fatal        *)
(* InvalidVolume error and not in a crash: whenever the volumes stage has  *)
(* acted on a service with such an entry, the run has ended in             *)
(* InvalidVolume.                                                           *)

C8_NoColonIsInvalidVolume ==
    (VolumesActed /\ BadVolumes(service) # {})
        => (pc = "fatal" /\ fatal.kind = "InvalidVolume")

----------------------------------------------------------------------------
(* C9: the InvalidPort error.  As claimed: it names the failing service    *)
(* and the failing entry as it stands in the source list.                   *)

C9_NamesRawPort ==
    InvalidPort =>
        /\ fatal.service = keys[idx]
        /\ BadPorts(service) # {}
        /\ fatal.port = service.Ports[Min(BadPorts(service))]

(* C9 as amended: it names the failing service and, of the first entry     *)
(* that fails, the string handed to the integer parsing: the entry with    *)
(* its quotes and white space stripped and, when it has a colon, cut down  *)
(* to its second colon-delimited field (abc for 8080:abc).                  *)

C9_NamesParsedField ==
    InvalidPort =>
        /\ fatal.service = keys[idx]
        /\ BadPorts(service) # {}
        /\ fatal.port = ContainerField(service.Ports[Min(BadPorts(service))])

\* 8080:abc is reported as abc
C9_Witness ==
    /\ InvalidPort
    /\ Len(service.Ports) = 2
    /\ service.Ports[1] = Port80
    /\ service.Ports[2] = Port8080ToAbc
    /\ fatal.port = PortAbc
    /\ fatal.service = keys[idx]

----------------------------------------------------------------------------

ManyColons(raw) == Cardinality(Positions(Normalised(raw), ":")) > 1

(* C10: a port entry with more than one colon.  As claimed: the string     *)
(* handed to the integer parsing is everything after the first colon,      *)
(* further colons included; such a string is no integer, so the run ends   *)
(* in InvalidPort, which names it.                                          *)

C10_TwoWaySplit ==
    (PortsActed /\ service.Ports # <<>> /\ ManyColons(service.Ports[1]))
        => /\ InvalidPort
           /\ fatal.port = AfterFirst(Normalised(service.Ports[1]), ":")

(* C10 as amended: the string handed to the integer parsing is the second  *)
(* field of a split at every colon, the text between the first colon and   *)
(* the second; the fields after the second colon are ignored, so 1:2:3     *)
(* gives container port 2.                                                  *)

C10_SecondOfAllFields ==
    /\ PortsDone =>
          \A k \in 1..Len(service.Ports) :
              ManyColons(service.Ports[k]) =>
                  LET field == FieldOf(Normalised(service.Ports[k]), ":", 2)
                  IN  /\ IsInt32Literal(field)
                      /\ k <= Len(rs.Ports)
                      /\ rs.Ports[k].ContainerPort = Int32Value(field)
    /\ (PortsActed /\ service.Ports # <<>> /\ ManyColons(service.Ports[1])
           /\ ~IsInt32Literal(FieldOf(Normalised(service.Ports[1]), ":", 2)))
          => /\ InvalidPort
             /\ fatal.port = FieldOf(Normalised(service.Ports[1]), ":", 2)

\* 1:2:3 is translated to container port 2
C10_Witness ==
    /\ PortsDone
    /\ Len(service.Ports) = 2
    /\ Len(rs.Ports) = 2
    /\ service.Ports[1] = Port1To2To3
    /\ rs.Ports[1].ContainerPort = 2

====
